---- MODULE Spec2Model ----
(***************************************************************************)
(* Model of flang/lib/evaluate/host.h: the compile-time correspondence     *)
(* between Fortran intrinsic types and host hardware types, the search for *)
(* a bigger-or-same host type, the scalar casts between the two encodings  *)
(* and the guard of the host floating-point environment.                   *)
(*                                                                         *)
(* The template machinery of the header is evaluated by the compiler from  *)
(* facts about the host (sizeof, std::numeric_limits, __SIZEOF_INT128__).  *)
(* Those facts are the variable hw, fixed by Init; every template is an    *)
(* operator of hw, and each action instantiates one template.              *)
(***************************************************************************)
EXTENDS Integers, Sequences, FiniteSets, TLC

VARIABLES
  hw,      \* the host: sizeof / numeric_limits facts the templates read
  call,    \* the last template instantiated, with its argument and result
  cast,    \* the last scalar cast: kind, source bytes, host bytes, bytes back
  fenv,    \* the host floating-point environment of this thread
  guards,  \* the HostFloatingPointEnvironment objects that are set up, innermost last
  ghost,   \* history, one entry per guard: the environment before its SetUp,
           \* the flags raised under it, whether a guard was nested in it
  closed   \* what the last CheckAndRestoreFloatingPointEnvironment saw and did

vars == <<hw, call, cast, fenv, guards, ghost, closed>>

(***************************************************************************)
(* Fortran types (type.h) and host types                                   *)
(***************************************************************************)
Type(cat, KIND) == [category |-> cat, kind |-> KIND]

\* NextBiggerReal's "using Type = void"
Void == Type("void", 0)

\* struct UnknownType {}: the host type does not match any F18 type
UnknownType == Type("UnknownType", 0)

\* type.h: IntegerTypes, RealTypes, ComplexTypes, CharacterTypes, LogicalTypes,
\* combined in this order into AllIntrinsicTypes
AllIntrinsicTypes ==
  << Type("Integer", 1), Type("Integer", 2), Type("Integer", 4),
     Type("Integer", 8), Type("Integer", 16),
     Type("Real", 2), Type("Real", 3), Type("Real", 4),
     Type("Real", 8), Type("Real", 10), Type("Real", 16),
     Type("Complex", 2), Type("Complex", 3), Type("Complex", 4),
     Type("Complex", 8), Type("Complex", 10), Type("Complex", 16),
     Type("Character", 1), Type("Character", 2), Type("Character", 4),
     Type("Logical", 1), Type("Logical", 2), Type("Logical", 4),
     Type("Logical", 8) >>

\* Kinds outside the intrinsic list that the templates still accept
ExtraTypes ==
  { Type("Integer", 3), Type("Real", 1), Type("Complex", 1), Type("Logical", 16) }

FortranTypes ==
  { AllIntrinsicTypes[i] : i \in 1..Len(AllIntrinsicTypes) } \cup ExtraTypes

\* A host type: a primitive, std::complex of a primitive, or (Character) the
\* Fortran scalar type itself, told apart by its kind
Host(name) == [name |-> name, complex |-> FALSE, kind |-> 0]

\* struct UnsupportedType {}: there is no host type for the F18 type
UnsupportedType == Host("UnsupportedType")

StdComplex(h) == [h EXCEPT !.complex = TRUE]

HostTypes ==
  { Host(n) : n \in { "int8_t", "int16_t", "int32_t", "int64_t", "__int128_t",
                      "float", "double", "long double", "uint8_t",
                      "long long", "bool", "UnsupportedType" } }
  \cup { StdComplex(Host(n)) : n \in { "float", "double", "long double" } }
  \cup { [name |-> "Scalar<Character>", complex |-> FALSE, kind |-> k] :
           k \in {1, 2, 4} }

(***************************************************************************)
(* The host facts                                                          *)
(***************************************************************************)
Profiles ==
  [ sizeofFloat : {2, 4},  floatIec : BOOLEAN,
    sizeofDouble : {4, 8}, doubleIec : BOOLEAN,
    sizeofLongDouble : {8, 10, 12, 16},
    ldDigits : {53, 64, 113}, ldMaxExponent : {1024, 16384},
    ldIec : BOOLEAN,
    int128 : BOOLEAN ]

(***************************************************************************)
(* HostTypeHelper and its specializations                                  *)
(***************************************************************************)
HostTypeHelperInteger(p, KIND) ==
  CASE KIND = 1 -> Host("int8_t")
    [] KIND = 2 -> Host("int16_t")
    [] KIND = 4 -> Host("int32_t")
    [] KIND = 8 -> Host("int64_t")
    [] KIND = 16 -> IF p.int128 THEN Host("__int128_t") ELSE UnsupportedType
    [] OTHER -> UnsupportedType

\* A slip: the X87 entry forgets to check max_exponent
HostTypeHelperRealNoExponent(p, KIND) ==
  CASE KIND = 4 ->
         IF p.sizeofFloat = 4 /\ p.floatIec THEN Host("float") ELSE UnsupportedType
    [] KIND = 8 ->
         IF p.sizeofDouble = 8 /\ p.doubleIec THEN Host("double") ELSE UnsupportedType
    [] KIND = 10 ->
         IF p.sizeofLongDouble >= 10 /\ p.ldDigits = 64
         THEN Host("long double") ELSE UnsupportedType
    [] KIND = 16 ->
         IF p.sizeofLongDouble = 16 /\ p.ldDigits = 113 /\ p.ldMaxExponent = 16384
         THEN Host("long double") ELSE UnsupportedType
    [] OTHER -> UnsupportedType

HostTypeHelperReal(p, KIND) ==
  CASE KIND = 4 ->
         IF p.sizeofFloat = 4 /\ p.floatIec THEN Host("float") ELSE UnsupportedType
    [] KIND = 8 ->
         IF p.sizeofDouble = 8 /\ p.doubleIec THEN Host("double") ELSE UnsupportedType
    [] KIND = 10 ->
         IF p.sizeofLongDouble >= 10 /\ p.ldDigits = 64 /\ p.ldMaxExponent = 16384
         THEN Host("long double") ELSE UnsupportedType
    [] KIND = 16 ->
         IF p.sizeofLongDouble = 16 /\ p.ldDigits = 113 /\ p.ldMaxExponent = 16384
         THEN Host("long double") ELSE UnsupportedType
    [] OTHER -> UnsupportedType

\* A slip: the pair is built without asking whether the real type exists
HostTypeHelperComplexUnchecked(p, KIND) ==
  StdComplex(HostTypeHelperReal(p, KIND))

HostTypeHelperComplex(p, KIND) ==
  LET RealT == HostTypeHelperReal(p, KIND)
  IN  IF RealT # UnsupportedType THEN StdComplex(RealT) ELSE UnsupportedType

HostTypeHelperLogical(KIND) ==
  IF KIND <= 8 THEN Host("uint8_t") ELSE UnsupportedType

HostTypeHelperCharacter(KIND) ==
  [name |-> "Scalar<Character>", complex |-> FALSE, kind |-> KIND]

\* HostType<FTN_T>; the primary template gives UnsupportedType
HostType(p, T) ==
  CASE T.category = "Integer" -> HostTypeHelperInteger(p, T.kind)
    [] T.category = "Real" -> HostTypeHelperReal(p, T.kind)
    [] T.category = "Complex" -> HostTypeHelperComplex(p, T.kind)
    [] T.category = "Logical" -> HostTypeHelperLogical(T.kind)
    [] T.category = "Character" -> HostTypeHelperCharacter(T.kind)
    [] OTHER -> UnsupportedType

HostTypeExists(p, T) == HostType(p, T) # UnsupportedType

(***************************************************************************)
(* FortranType<HOST_T>: HostTypeHelper reversed                            *)
(***************************************************************************)
\* common::MapTemplate<HostType, AllIntrinsicTypes, std::tuple>
HostTypeMapping(p) ==
  [ i \in 1..Len(AllIntrinsicTypes) |-> HostType(p, AllIntrinsicTypes[i]) ]

\* common::TypeIndex: zero-based index of the first equal type, or -1
TypeIndex(A, TYPES) ==
  LET hits == { i \in 1..Len(TYPES) : TYPES[i] = A }
  IN  IF hits = {} THEN -1
      ELSE (CHOOSE i \in hits : \A j \in hits : i <= j) - 1

\* A slip: index 0 is taken for "not found"
FortranTypeHelperPositive(p, HOST_T) ==
  LET index == TypeIndex(HOST_T, HostTypeMapping(p))
  IN  IF index > 0 THEN AllIntrinsicTypes[index + 1] ELSE UnknownType

\* A slip: the zero-based index is used as a one-based position
FortranTypeHelperOffByOne(p, HOST_T) ==
  LET index == TypeIndex(HOST_T, HostTypeMapping(p))
  IN  IF index >= 0
      THEN (IF index = 0 THEN UnknownType ELSE AllIntrinsicTypes[index])
      ELSE UnknownType

FortranTypeHelper(p, HOST_T) ==
  LET index == TypeIndex(HOST_T, HostTypeMapping(p))
  IN  IF index >= 0 THEN AllIntrinsicTypes[index + 1] ELSE UnknownType

FortranType(p, HOST_T) == FortranTypeHelper(p, HOST_T)

FortranTypeExists(p, HOST_T) == FortranType(p, HOST_T) # UnknownType

(***************************************************************************)
(* Bigger-or-same host type                                                *)
(***************************************************************************)
\* A slip: the X87 step of the chain is left out
NextBiggerRealSkipsX87(cat, KIND) ==
  CASE KIND = 2 -> Type(cat, 4)
    [] KIND = 3 -> Type(cat, 4)
    [] KIND = 4 -> Type(cat, 8)
    [] KIND = 8 -> Type(cat, 16)
    [] KIND = 10 -> Type(cat, 16)
    [] OTHER -> Void

NextBiggerReal(cat, KIND) ==
  CASE KIND = 2 -> Type(cat, 4)
    [] KIND = 3 -> Type(cat, 4)
    [] KIND = 4 -> Type(cat, 8)
    [] KIND = 8 -> Type(cat, 10)
    [] KIND = 10 -> Type(cat, 16)
    [] OTHER -> Void

RECURSIVE BiggerOrSameHostTypeHelper(_, _)

\* A slip: the Fortran type is not promoted together with the host type
BiggerOrSameHostTypeHelperKeepsT(p, T) ==
  IF T.category \in {"Real", "Complex"}
  THEN LET NextT == NextBiggerReal(T.category, T.kind)
       IN  [ Type |-> IF HostTypeExists(p, T) THEN HostType(p, T)
                      ELSE BiggerOrSameHostTypeHelper(p, NextT).Type,
             FortranType |-> T ]
  ELSE [ Type |-> IF HostTypeExists(p, T) THEN HostType(p, T) ELSE UnsupportedType,
         FortranType |-> T ]

\* The Real and Complex specializations walk NextBiggerReal; every other type
\* (void included) takes the primary template
BiggerOrSameHostTypeHelper(p, T) ==
  IF T.category \in {"Real", "Complex"}
  THEN LET NextT == NextBiggerReal(T.category, T.kind)
       IN  [ Type |-> IF HostTypeExists(p, T) THEN HostType(p, T)
                      ELSE BiggerOrSameHostTypeHelper(p, NextT).Type,
             FortranType |-> IF HostTypeExists(p, T) THEN T
                             ELSE BiggerOrSameHostTypeHelper(p, NextT).FortranType ]
  ELSE [ Type |-> IF HostTypeExists(p, T) THEN HostType(p, T) ELSE UnsupportedType,
         FortranType |-> T ]

BiggerOrSameHostType(p, T) == BiggerOrSameHostTypeHelper(p, T).Type

BiggerOrSameFortranTypeSupportedOnHost(p, T) ==
  BiggerOrSameHostTypeHelper(p, T).FortranType

BiggerOrSameHostTypeExists(p, T) == BiggerOrSameHostType(p, T) # UnsupportedType

(***************************************************************************)
(* Scalars as byte sequences                                               *)
(***************************************************************************)
\* sizeof(Scalar<FTN_T>): a value::Integer, value::Real or value::Logical of
\* 8*KIND bits, a value::Complex of two such Reals; a Character scalar is a
\* string object, taken here as one character of KIND bytes
SizeofScalar(T) ==
  IF T.category = "Complex" THEN 2 * T.kind ELSE T.kind

\* sizeof(HostType<FTN_T>)
SizeofHost(p, h) ==
  LET base ==
        CASE h.name = "int8_t" -> 1
          [] h.name = "int16_t" -> 2
          [] h.name = "int32_t" -> 4
          [] h.name = "int64_t" -> 8
          [] h.name = "__int128_t" -> 16
          [] h.name = "uint8_t" -> 1
          [] h.name = "float" -> p.sizeofFloat
          [] h.name = "double" -> p.sizeofDouble
          [] h.name = "long double" -> p.sizeofLongDouble
          [] h.name = "Scalar<Character>" -> h.kind
          [] OTHER -> 0
  IN  IF h.complex THEN 2 * base ELSE base

\* The byte patterns tried as scalar values
Patterns == {"zero", "ones", "one", "ramp"}

Bytes(pat, n) ==
  [ i \in 1..n |->
      CASE pat = "zero" -> 0
        [] pat = "ones" -> 255
        [] pat = "one" -> (IF i = 1 THEN 1 ELSE 0)
        [] OTHER -> i ]

\* What a read past the end of an object may find
GarbageBytes == {0, 170}

\* *reinterpret_cast<const TO *>(&x): the first n bytes at the address of x;
\* bytes past the end of x are whatever lies there (g)
Reinterpret(x, n, g) ==
  [ i \in 1..n |-> IF i <= Len(x) THEN x[i] ELSE g ]

\* x.REAL(), x.AIMAG(), std::real(x), std::imag(x): the two halves of a pair
FirstPart(x) == SubSeq(x, 1, Len(x) \div 2)
SecondPart(x) == SubSeq(x, Len(x) \div 2 + 1, Len(x))

\* FTN_T::Part
Part(T) == Type("Real", T.kind)

RECURSIVE CastFortranToHost(_, _, _, _)
\* The result, and the sizes of every reinterpretation done on the way
CastFortranToHost(p, T, x, g) ==
  IF T.category = "Complex" /\ SizeofScalar(T) # SizeofHost(p, HostType(p, T))
  THEN LET re == CastFortranToHost(p, Part(T), FirstPart(x), g)
           im == CastFortranToHost(p, Part(T), SecondPart(x), g)
       IN  [ value |-> re.value \o im.value,
             reinterpreted |-> re.reinterpreted \cup im.reinterpreted ]
  ELSE [ value |-> Reinterpret(x, SizeofHost(p, HostType(p, T)), g),
         reinterpreted |->
           { [from |-> SizeofScalar(T), to |-> SizeofHost(p, HostType(p, T))] } ]

RECURSIVE CastHostToFortran(_, _, _, _)
CastHostToFortran(p, T, x, g) ==
  IF T.category = "Complex" /\ SizeofScalar(T) # SizeofHost(p, HostType(p, T))
  THEN LET re == CastHostToFortran(p, Part(T), FirstPart(x), g)
           im == CastHostToFortran(p, Part(T), SecondPart(x), g)
       IN  [ value |-> re.value \o im.value,
             reinterpreted |-> re.reinterpreted \cup im.reinterpreted ]
  ELSE [ value |-> Reinterpret(x, SizeofScalar(T), g),
         reinterpreted |->
           { [from |-> SizeofHost(p, HostType(p, T)), to |-> SizeofScalar(T)] } ]

(***************************************************************************)
(* The host floating-point environment and its guard                       *)
(***************************************************************************)
MaxNesting == 2

RoundingModes == {"TiesToEven", "ToZero"}
Flags == {"Overflow", "Inexact"}

\* std::fenv_t: rounding mode, enabled traps, raised status flags
FEnvs == [round : RoundingModes, traps : SUBSET Flags, flags : SUBSET Flags]

\* What the folding context asks SetUp to install
Configurations == [round : RoundingModes, traps : SUBSET Flags]

Installed(cfg) == [round |-> cfg.round, traps |-> cfg.traps, flags |-> {}]

\* A slip: one snapshot shared by every guard instead of one per object
SetUpSharedSnapshot(stack, env, cfg) ==
  [ guards |-> [ i \in 1..(Len(stack) + 1) |->
                   [originalFenv_ |-> env, currentFenv_ |-> Installed(cfg)] ],
    fenv |-> Installed(cfg) ]

\* SetUpHostFloatingPointEnvironment on a new guard object: save the
\* environment, clear the flags, install the configuration
SetUp(stack, env, cfg) ==
  [ guards |-> Append(stack,
                 [originalFenv_ |-> env, currentFenv_ |-> Installed(cfg)]),
    fenv |-> Installed(cfg) ]

\* A slip: the flags are read after the environment is restored
CheckAndRestoreReadsLate(stack, env) ==
  LET g == stack[Len(stack)]
  IN  [ guards |-> SubSeq(stack, 1, Len(stack) - 1),
        reported |-> g.originalFenv_.flags,
        fenv |-> g.originalFenv_ ]

\* CheckAndRestoreFloatingPointEnvironment on the innermost guard: read the
\* flags, report them, restore the saved environment
CheckAndRestore(stack, env) ==
  LET g == stack[Len(stack)]
  IN  [ guards |-> SubSeq(stack, 1, Len(stack) - 1),
        reported |-> env.flags,
        fenv |-> g.originalFenv_ ]

(***************************************************************************)
(* Behaviour                                                               *)
(***************************************************************************)
NoCall == [op |-> "none", ftn |-> Void, host |-> UnsupportedType, fortranType |-> Void]

NoCast ==
  [op |-> "none", T |-> Void, x |-> <<>>, host |-> <<>>, back |-> <<>>,
   reinterpreted |-> {}]

DefaultFEnv == [round |-> "TiesToEven", traps |-> {}, flags |-> {}]

NoClose ==
  [op |-> "none", reported |-> {}, before |-> DefaultFEnv, raised |-> {},
   depth |-> 0, nested |-> FALSE]

\* An x86-64 host, used where the host facts play no part
X86_64 ==
  [ sizeofFloat |-> 4, floatIec |-> TRUE, sizeofDouble |-> 8, doubleIec |-> TRUE,
    sizeofLongDouble |-> 16, ldDigits |-> 64, ldMaxExponent |-> 16384,
    ldIec |-> TRUE, int128 |-> TRUE ]

\* ---- the type correspondence --------------------------------------------
\* One behaviour is one host and one template instantiated on it
InitTypes ==
  /\ hw \in Profiles
  /\ call = NoCall
  /\ cast = NoCast
  /\ fenv = DefaultFEnv
  /\ guards = <<>>
  /\ ghost = <<>>
  /\ closed = NoClose

\* HostType<T>
InstantiateHostType ==
  /\ call.op = "none"
  /\ \E T \in FortranTypes :
       call' = [op |-> "HostType", ftn |-> T, host |-> HostType(hw, T),
                fortranType |-> Void]
  /\ UNCHANGED <<hw, cast, fenv, guards, ghost, closed>>

\* FortranType<HOST_T>
InstantiateFortranType ==
  /\ call.op = "none"
  /\ \E h \in HostTypes :
       call' = [op |-> "FortranType", ftn |-> Void, host |-> h,
                fortranType |-> FortranType(hw, h)]
  /\ UNCHANGED <<hw, cast, fenv, guards, ghost, closed>>

\* BiggerOrSameHostType<T> and BiggerOrSameFortranTypeSupportedOnHost<T>
InstantiateBiggerOrSame ==
  /\ call.op = "none"
  /\ \E T \in FortranTypes :
       call' = [op |-> "BiggerOrSame", ftn |-> T,
                host |-> BiggerOrSameHostType(hw, T),
                fortranType |-> BiggerOrSameFortranTypeSupportedOnHost(hw, T)]
  /\ UNCHANGED <<hw, cast, fenv, guards, ghost, closed>>

NextTypes ==
  \/ InstantiateHostType
  \/ InstantiateFortranType
  \/ InstantiateBiggerOrSame

SpecTypes == InitTypes /\ [][NextTypes]_vars

\* ---- the scalar casts ---------------------------------------------------
\* One behaviour is one host and one scalar taken to the host and back
InitCast ==
  /\ hw \in Profiles
  /\ call = NoCall
  /\ cast = NoCast
  /\ fenv = DefaultFEnv
  /\ guards = <<>>
  /\ ghost = <<>>
  /\ closed = NoClose

\* CastFortranToHost<T>(x); static_assert(HostTypeExists<T>()) admits the call
CallCastFortranToHost ==
  /\ cast.op = "none"
  /\ \E T \in FortranTypes, pat \in Patterns, g \in GarbageBytes :
       /\ HostTypeExists(hw, T)
       /\ LET x == Bytes(pat, SizeofScalar(T))
              r == CastFortranToHost(hw, T, x, g)
          IN  cast' = [op |-> "CastFortranToHost", T |-> T, x |-> x,
                       host |-> r.value, back |-> <<>>,
                       reinterpreted |-> r.reinterpreted]
  /\ UNCHANGED <<hw, call, fenv, guards, ghost, closed>>

\* CastHostToFortran<T> of the host value just obtained
CallCastHostToFortran ==
  /\ cast.op = "CastFortranToHost"
  /\ \E g \in GarbageBytes :
       LET r == CastHostToFortran(hw, cast.T, cast.host, g)
       IN  cast' = [cast EXCEPT !.op = "CastHostToFortran", !.back = r.value,
                                !.reinterpreted = r.reinterpreted]
  /\ UNCHANGED <<hw, call, fenv, guards, ghost, closed>>

NextCast ==
  \/ CallCastFortranToHost
  \/ CallCastHostToFortran

SpecCast == InitCast /\ [][NextCast]_vars

\* ---- the floating-point environment guard -------------------------------
InitGuard ==
  /\ hw = X86_64
  /\ call = NoCall
  /\ cast = NoCast
  /\ fenv \in FEnvs
  /\ guards = <<>>
  /\ ghost = <<>>
  /\ closed = NoClose

SetUpHostFloatingPointEnvironment ==
  /\ Len(guards) < MaxNesting
  /\ \E cfg \in Configurations :
       LET r == SetUp(guards, fenv, cfg)
       IN  /\ guards' = r.guards
           /\ fenv' = r.fenv
  /\ ghost' = Append(
       [ i \in 1..Len(ghost) |->
           IF i = Len(ghost) THEN [ghost[i] EXCEPT !.nested = TRUE] ELSE ghost[i] ],
       [before |-> fenv, raised |-> {}, nested |-> FALSE])
  /\ closed' = NoClose
  /\ UNCHANGED <<hw, call, cast>>

\* A host operation raises a status flag whose trap is not enabled
RaiseFlag ==
  /\ \E f \in Flags \ (fenv.traps \cup fenv.flags) :
       /\ fenv' = [fenv EXCEPT !.flags = @ \cup {f}]
       /\ ghost' = [ i \in 1..Len(ghost) |->
                       IF i = Len(ghost)
                       THEN [ghost[i] EXCEPT !.raised = @ \cup {f}]
                       ELSE ghost[i] ]
  /\ closed' = NoClose
  /\ UNCHANGED <<hw, call, cast, guards>>

CheckAndRestoreFloatingPointEnvironment ==
  /\ guards # <<>>
  /\ LET r == CheckAndRestore(guards, fenv)
         h == ghost[Len(ghost)]
     IN  /\ guards' = r.guards
         /\ fenv' = r.fenv
         /\ closed' = [op |-> "CheckAndRestore", reported |-> r.reported,
                       before |-> h.before, raised |-> h.raised,
                       depth |-> Len(ghost), nested |-> h.nested]
  /\ ghost' = SubSeq(ghost, 1, Len(ghost) - 1)
  /\ UNCHANGED <<hw, call, cast>>

NextGuard ==
  \/ SetUpHostFloatingPointEnvironment
  \/ RaiseFlag
  \/ CheckAndRestoreFloatingPointEnvironment

SpecGuard == InitGuard /\ [][NextGuard]_vars

(***************************************************************************)
(* Properties                                                              *)
(***************************************************************************)
Exists(k) == HostTypeExists(hw, k)

\* The kinds whose host type is the one FortranType was asked about
SourcesOfCallHost == { k \in FortranTypes : Exists(k) /\ HostType(hw, k) = call.host }

\* C1 as stated: for every kind k with a host type, FortranType<HostType<k>>
\* is k itself, Logical kinds sharing one host type included.
C1_InverseOfForwardIsIdentity ==
  call.op = "FortranType" =>
    \A k \in SourcesOfCallHost : call.fortranType = k

\* C1 amended: for every kind k with a host type, FortranType<HostType<k>> is
\* a kind with the same host type as k, and is k itself whenever no other kind
\* has that host type.
C1_InverseOfForwardKeepsHostType ==
  call.op = "FortranType" =>
    \A k \in SourcesOfCallHost :
      /\ HostType(hw, call.fortranType) = HostType(hw, k)
      /\ (SourcesOfCallHost = {k} => call.fortranType = k)

C1_Witness ==
  /\ call.op = "FortranType"
  /\ call.host = Host("uint8_t")
  /\ Cardinality(SourcesOfCallHost) > 1
  /\ call.fortranType \in SourcesOfCallHost

\* C2 as stated: a scalar of a kind that has a host type, cast to the host
\* and back, comes back bit for bit.
C2_RoundTrip ==
  cast.op = "CastHostToFortran" => cast.back = cast.x

\* The width successor of the promotion chain, written out
ChainAfter(w) ==
  CASE w = 2 -> {4, 8, 10, 16}
    [] w = 3 -> {4, 8, 10, 16}
    [] w = 4 -> {8, 10, 16}
    [] w = 8 -> {10, 16}
    [] w = 10 -> {16}
    [] OTHER -> {}

WidestUsableReference(k) ==
  IF Exists(k) THEN [Type |-> HostType(hw, k), FortranType |-> k]
  ELSE IF k.category \in {"Real", "Complex"}
  THEN LET ok == { w \in ChainAfter(k.kind) : Exists(Type(k.category, w)) }
       IN  IF ok = {} THEN [Type |-> UnsupportedType, FortranType |-> Void]
           ELSE LET w == CHOOSE v \in ok : \A u \in ok : v <= u
                IN  [Type |-> HostType(hw, Type(k.category, w)),
                     FortranType |-> Type(k.category, w)]
  ELSE [Type |-> UnsupportedType, FortranType |-> Void]

\* C3: BiggerOrSameHostType / BiggerOrSameFortranTypeSupportedOnHost agree with
\* the reference: the kind itself when it has a host type; else, for Real and
\* Complex, the first kind with a host type along 2->4, 3->4, 4->8, 8->10,
\* 10->16, unsupported when there is none; else unsupported at once.
C3_BiggerOrSameIsReference ==
  call.op = "BiggerOrSame" =>
    LET ref == WidestUsableReference(call.ftn)
    IN  /\ call.host = ref.Type
        /\ (ref.Type # UnsupportedType => call.fortranType = ref.FortranType)

C3_Witness ==
  /\ call.op = "BiggerOrSame"
  /\ call.ftn = Type("Real", 8)
  /\ ~Exists(Type("Real", 8))
  /\ ~Exists(Type("Real", 10))
  /\ call.fortranType = Type("Real", 16)
  /\ call.host = Host("long double")

\* C4: Complex(w) has a host type exactly when Real(w) has one, and it is then
\* std::complex of Real(w)'s host type.
C4_ComplexFollowsReal ==
  (call.op = "HostType" /\ call.ftn.category = "Complex") =>
    LET RealT == Type("Real", call.ftn.kind)
    IN  /\ (call.host # UnsupportedType) <=> Exists(RealT)
        /\ (call.host # UnsupportedType =>
              /\ call.host.complex
              /\ call.host.name = HostType(hw, RealT).name)

C4_Witness ==
  /\ call.op = "HostType"
  /\ call.ftn = Type("Complex", 10)
  /\ call.host = StdComplex(Host("long double"))

\* C5 as stated: Real(w) has a host type exactly when the native type of
\* exactly w bytes has the profile required for w.
C5_RealNeedsExactWidth ==
  (call.op = "HostType" /\ call.ftn.category = "Real") =>
    ( (call.host # UnsupportedType) <=>
        CASE call.ftn.kind = 4 -> hw.sizeofFloat = 4 /\ hw.floatIec
          [] call.ftn.kind = 8 -> hw.sizeofDouble = 8 /\ hw.doubleIec
          [] call.ftn.kind = 10 ->
               /\ hw.sizeofLongDouble = 10
               /\ hw.ldDigits = 64 /\ hw.ldMaxExponent = 16384
          [] call.ftn.kind = 16 ->
               /\ hw.sizeofLongDouble = 16
               /\ hw.ldDigits = 113 /\ hw.ldMaxExponent = 16384
          [] OTHER -> FALSE )

\* C5 amended: as stated, except that Real(10) asks for a long double of at
\* least 10 bytes (not exactly 10) with 64 digits and max exponent 16384, and
\* that long double's is_iec559 is not consulted.
C5_RealNeedsProfile ==
  (call.op = "HostType" /\ call.ftn.category = "Real") =>
    /\ (call.host # UnsupportedType) <=>
         CASE call.ftn.kind = 4 -> hw.sizeofFloat = 4 /\ hw.floatIec
           [] call.ftn.kind = 8 -> hw.sizeofDouble = 8 /\ hw.doubleIec
           [] call.ftn.kind = 10 ->
                /\ hw.sizeofLongDouble >= 10
                /\ hw.ldDigits = 64 /\ hw.ldMaxExponent = 16384
           [] call.ftn.kind = 16 ->
                /\ hw.sizeofLongDouble = 16
                /\ hw.ldDigits = 113 /\ hw.ldMaxExponent = 16384
           [] OTHER -> FALSE
    /\ \A b \in BOOLEAN : HostType([hw EXCEPT !.ldIec = b], call.ftn) = call.host

C5_Witness ==
  /\ call.op = "HostType"
  /\ call.ftn = Type("Real", 10)
  /\ hw.sizeofLongDouble = 16
  /\ call.host = Host("long double")

\* C6: after CheckAndRestore the environment is the one that held just before
\* the guard's SetUp, and every flag raised under the guard was reported.
C6_GuardRoundTrip ==
  closed.op = "CheckAndRestore" =>
    /\ fenv = closed.before
    /\ closed.raised \subseteq closed.reported

C6_Witness ==
  /\ closed.op = "CheckAndRestore"
  /\ "Overflow" \in closed.raised
  /\ closed.before.flags = {"Inexact"}
  /\ closed.before.round = "ToZero"

\* C7: nested guards restore in reverse order: closing the inner guard gives
\* back the environment before the second SetUp and leaves the outer snapshots
\* as taken; closing the outer guard then gives back the environment before
\* the first SetUp.
C7_NestedGuards ==
  closed.op = "CheckAndRestore" =>
    /\ Len(guards) = closed.depth - 1
    /\ \A i \in 1..Len(guards) : guards[i].originalFenv_ = ghost[i].before
    /\ ((closed.depth > 1 \/ closed.nested) => fenv = closed.before)

C7_Witness ==
  /\ closed.op = "CheckAndRestore"
  /\ closed.depth = 1
  /\ closed.nested
  /\ guards = <<>>
  /\ closed.before.flags # {}
  /\ closed.before.traps # {}

C9_NoReinterpretationAcrossSizes ==
  \A r \in cast.reinterpreted : r.from = r.to

\* C10: a successful search returns a kind of the same category, at least as
\* wide, that has a host type, and that host type is the one returned; every
\* step of the chain is strictly wider and width 16 has no successor.
C10_BiggerOrSameConsistent ==
  (call.op = "BiggerOrSame" /\ call.host # UnsupportedType) =>
    /\ call.fortranType.category = call.ftn.category
    /\ call.fortranType.kind >= call.ftn.kind
    /\ Exists(call.fortranType)
    /\ call.host = HostType(hw, call.fortranType)
    /\ \A w \in 1..16 :
         LET n == NextBiggerReal(call.ftn.category, w)
         IN  n # Void => (n.kind > w /\ n.kind <= 16)
    /\ NextBiggerReal(call.ftn.category, 16) = Void

C10_Witness ==
  /\ call.op = "BiggerOrSame"
  /\ call.ftn = Type("Complex", 3)
  /\ call.fortranType = Type("Complex", 4)
  /\ call.host = StdComplex(Host("float"))

====
